---- MODULE Spec2Model ----
\* Model of spotify-lambda: the Ingestor (spotify-lambda-fetcher.py) upserts play
\* events into a Mongo collection, the Estimator (SpotifyTimeTakenUpdater.py)
\* back-fills time_taken.  Texts are sequences of one-character strings, so that
\* formatting and parsing are computed and not assumed.
EXTENDS Integers, Sequences, FiniteSets, TLC

VARIABLES store, lastRun

vars == <<store, lastRun>>

\* ------------------------------------------------------------------ bounds
\* Number of pre-existing documents the collection may hold at the start.
MaxPreload == 3
\* Number of raw items in one page returned by the streaming API.
MaxBatch == 2
\* Number of update_one calls that raise in one run of the Estimator.
MaxFailing == 1

\* ------------------------------------------------------------------ texts
DigitChars == <<"0", "1", "2", "3", "4", "5", "6", "7", "8", "9">>

DigitValues == [c \in {DigitChars[k] : k \in 1..10} |-> (CHOOSE k \in 1..10 : DigitChars[k] = c) - 1]

IsDigit(c) == c \in DOMAIN DigitValues

DigitVal(c) == DigitValues[c]

\* Code point order of the characters the texts use (Mongo's simple binary
\* collation compares strings code point by code point).
Ord(c) ==
    CASE c = " " -> 32
      [] c = "+" -> 43
      [] c = "-" -> 45
      [] c = "." -> 46
      [] IsDigit(c) -> 48 + DigitVal(c)
      [] c = ":" -> 58
      [] c = "T" -> 84
      [] c = "Z" -> 90
      [] c = "a" -> 97
      [] c = "b" -> 98
      [] c = "c" -> 99

\* s < t in the collation order: the first differing character decides, a
\* proper prefix is smaller.
TextLess(s, t) ==
    LET differ == {k \in 1..Len(s) : k <= Len(t) /\ s[k] # t[k]}
    IN IF differ = {} THEN Len(s) < Len(t)
       ELSE LET k == CHOOSE j \in differ : \A h \in differ : j <= h
            IN Ord(s[k]) < Ord(t[k])

RECURSIVE NatToText(_)
\* str(n) for n >= 0.
NatToText(n) ==
    IF n < 10 THEN <<DigitChars[n + 1]>>
    ELSE Append(NatToText(n \div 10), DigitChars[(n % 10) + 1])

\* str(n) for any integer.
IntToText(n) == IF n < 0 THEN <<"-">> \o NatToText(-n) ELSE NatToText(n)

RECURSIVE ZeroPad(_, _)
\* A sign-less text padded with zeros on the left to width w.
ZeroPad(t, w) == IF Len(t) < w THEN ZeroPad(<<"0">> \o t, w) ELSE t

\* str.zfill(2) of a sign-less text and the format spec ":02" of an int >= 0.
Pad2(t) == ZeroPad(t, 2)

\* strftime's %Y: four digits.
Pad4(t) == ZeroPad(t, 4)

RECURSIVE DigitsToNat(_)
\* The value of a non-empty text of digits.
DigitsToNat(t) ==
    IF Len(t) = 1 THEN DigitVal(t[1])
    ELSE 10 * DigitsToNat(SubSeq(t, 1, Len(t) - 1)) + DigitVal(t[Len(t)])

AllDigits(t) == t # <<>> /\ \A k \in 1..Len(t) : IsDigit(t[k])

\* int(text): an optional sign followed by digits; anything else raises
\* ValueError, modelled as ok = FALSE.
PyInt(t) ==
    IF t # <<>> /\ Head(t) \in {"-", "+"} /\ AllDigits(Tail(t))
    THEN [ok |-> TRUE,
          val |-> IF Head(t) = "-" THEN -DigitsToNat(Tail(t)) ELSE DigitsToNat(Tail(t))]
    ELSE IF AllDigits(t) THEN [ok |-> TRUE, val |-> DigitsToNat(t)]
    ELSE [ok |-> FALSE, val |-> 0]

RECURSIVE Split(_, _)
\* str.split(sep) for a one-character separator.
Split(t, sep) ==
    IF \E k \in 1..Len(t) : t[k] = sep
    THEN LET k == CHOOSE j \in 1..Len(t) : t[j] = sep /\ \A h \in 1..(j - 1) : t[h] # sep
         IN <<SubSeq(t, 1, k - 1)>> \o Split(SubSeq(t, k + 1, Len(t)), sep)
    ELSE <<t>>

\* minutes*60+seconds of the two parsed parts; ok = FALSE if int() raised.
DurationTotal(m, s) ==
    IF m.ok /\ s.ok THEN [ok |-> TRUE, val |-> m.val * 60 + s.val]
    ELSE [ok |-> FALSE, val |-> 0]

\* "minutes, seconds = ..." unpacks exactly two parts, else ValueError.
DurationOfParts(parts) ==
    IF Len(parts) # 2 THEN [ok |-> FALSE, val |-> 0]
    ELSE DurationTotal(PyInt(parts[1]), PyInt(parts[2]))

\* minutes, seconds = duration.split(":"); int(minutes) * 60 + int(seconds)
ParseDuration(t) == DurationOfParts(Split(t, ":"))

\* The formatting with a division that truncates toward zero.
FormatTruncating(actual) ==
    IF actual < 0
    THEN <<"-">> \o NatToText((-actual) \div 60) \o <<":">> \o Pad2(NatToText((-actual) % 60))
    ELSE NatToText(actual \div 60) \o <<":">> \o Pad2(NatToText(actual % 60))

\* f"{int(actual // 60)}:{str(int(actual % 60)).zfill(2)}": floor division and
\* a remainder in 0..59, also for a negative actual.
FormatTimeTaken(actual) ==
    IntToText(actual \div 60) \o <<":">> \o Pad2(NatToText(actual % 60))

Min(a, b) == IF a < b THEN a ELSE b

\* ------------------------------------------------------------------ datetimes
\* A datetime is [days, secs]: days since 1970-01-01 and seconds of the day.
IsLeap(y) == (y % 4 = 0 /\ y % 100 # 0) \/ y % 400 = 0

DaysInMonth(y, m) ==
    IF m = 2 THEN (IF IsLeap(y) THEN 29 ELSE 28)
    ELSE IF m \in {4, 6, 9, 11} THEN 30 ELSE 31

\* The calendar arithmetic of datetime, in steps: day of the year counted from
\* 1 March, day of the 400-year era, days since 1970-01-01.
DayOfYear(m, d) == (153 * (IF m > 2 THEN m - 3 ELSE m + 9) + 2) \div 5 + d - 1

DayOfEra(yoe, doy) == yoe * 365 + yoe \div 4 - yoe \div 100 + doy

DaysOfShifted(yy, m, d) ==
    (yy \div 400) * 146097 + DayOfEra(yy % 400, DayOfYear(m, d)) - 719468

\* Days from 1970-01-01 to the proleptic Gregorian date y-m-d.
DaysFromCivil(y, m, d) == DaysOfShifted(IF m <= 2 THEN y - 1 ELSE y, m, d)

\* The inverse, in steps: year of the era, day of the year, month.
YearOfEra(doe) == (doe - doe \div 1460 + doe \div 36524 - doe \div 146096) \div 365

CivilDate(y, m, d) == [y |-> y + (IF m <= 2 THEN 1 ELSE 0), m |-> m, d |-> d]

CivilOfMonth(y, doy, mp) ==
    CivilDate(y, IF mp < 10 THEN mp + 3 ELSE mp - 9, doy - (153 * mp + 2) \div 5 + 1)

CivilOfDay(y, doy) == CivilOfMonth(y, doy, (5 * doy + 2) \div 153)

CivilOfYear(era, doe, yoe) ==
    CivilOfDay(yoe + era * 400, doe - (365 * yoe + yoe \div 4 - yoe \div 100))

CivilOfEra(era, doe) == CivilOfYear(era, doe, YearOfEra(doe))

\* The date y-m-d that lies z days after 1970-01-01.
CivilFromDays(z) == CivilOfEra((z + 719468) \div 146097, (z + 719468) % 146097)

\* Widths of strptime's numeric directives: %Y is four digits, %f one to six,
\* the others one or two.
DirectiveMin(f) == IF f = "%Y" THEN 4 ELSE 1

DirectiveMax(f) == IF f = "%Y" THEN 4 ELSE IF f = "%f" THEN 6 ELSE 2

IsDirective(f) == f \in {"%Y", "%m", "%d", "%H", "%M", "%S", "%f"}

RECURSIVE DigitRun(_, _)
\* The longest prefix of t made of digits, at most w characters long.
DigitRun(t, w) ==
    IF w = 0 \/ t = <<>> \/ ~IsDigit(Head(t)) THEN <<>>
    ELSE <<Head(t)>> \o DigitRun(Tail(t), w - 1)

\* One directive matched: its digits go in front of what the rest matched.
Matched(run, rest) == [ok |-> rest.ok, vals |-> <<run>> \o rest.vals]

RECURSIVE MatchFormat(_, _)
RECURSIVE MatchDirective(_, _, _)
\* The directive at the head of fmt against the digit run at the head of t.
MatchDirective(t, fmt, run) ==
    IF Len(run) < DirectiveMin(Head(fmt)) THEN [ok |-> FALSE, vals |-> <<>>]
    ELSE Matched(run, MatchFormat(SubSeq(t, Len(run) + 1, Len(t)), Tail(fmt)))

\* strptime's matching of a text against a format: the digit texts of the
\* directives in order, or ok = FALSE where strptime raises ValueError (a
\* literal that differs, a directive without digits, text left over).
MatchFormat(t, fmt) ==
    IF fmt = <<>> THEN [ok |-> t = <<>>, vals |-> <<>>]
    ELSE IF IsDirective(Head(fmt))
    THEN MatchDirective(t, fmt, DigitRun(t, DirectiveMax(Head(fmt))))
    ELSE IF t # <<>> /\ Head(t) = Head(fmt) THEN MatchFormat(Tail(t), Tail(fmt))
    ELSE [ok |-> FALSE, vals |-> <<>>]

\* datetime(y, m, d, hh, mm, ss): ValueError for a field out of range.
Datetime(y, m, d, hh, mm, ss) ==
    IF y >= 1 /\ m \in 1..12 /\ d >= 1 /\ d <= DaysInMonth(y, m)
       /\ hh <= 23 /\ mm <= 59 /\ ss <= 59
    THEN [ok |-> TRUE, days |-> DaysFromCivil(y, m, d), secs |-> (hh * 60 + mm) * 60 + ss]
    ELSE [ok |-> FALSE, days |-> 0, secs |-> 0]

\* The datetime of the matched directives %Y %m %d %H %M %S (a fraction of a
\* second, if any, is dropped with the formatting to seconds).
DatetimeOfMatch(got) ==
    IF ~got.ok THEN [ok |-> FALSE, days |-> 0, secs |-> 0]
    ELSE Datetime(DigitsToNat(got.vals[1]), DigitsToNat(got.vals[2]),
                  DigitsToNat(got.vals[3]), DigitsToNat(got.vals[4]),
                  DigitsToNat(got.vals[5]), DigitsToNat(got.vals[6]))

\* datetime.strptime(t, fmt): the datetime, or ok = FALSE for ValueError.
Strptime(t, fmt) == DatetimeOfMatch(MatchFormat(t, fmt))

\* "%Y-%m-%d %H:%M:%S"
StoredFormat == <<"%Y", "-", "%m", "-", "%d", " ", "%H", ":", "%M", ":", "%S">>

\* "%Y-%m-%dT%H:%M:%S.%fZ"
ApiFormatFraction ==
    <<"%Y", "-", "%m", "-", "%d", "T", "%H", ":", "%M", ":", "%S", ".", "%f", "Z">>

\* "%Y-%m-%dT%H:%M:%SZ"
ApiFormatWhole == <<"%Y", "-", "%m", "-", "%d", "T", "%H", ":", "%M", ":", "%S", "Z">>

\* (a - b).total_seconds() of two datetimes of second precision.
TotalSeconds(a, b) == (a.days - b.days) * 86400 + (a.secs - b.secs)

\* Asia/Singapore is UTC+8 without daylight saving.
TzOffsetHours == 8

\* A datetime moved by a number of seconds.
Shifted(t, total) ==
    [ok |-> t.ok, days |-> t.days + total \div 86400, secs |-> total % 86400]

\* utc_time.astimezone(gmt_plus_8)
AsTimezone(t) == Shifted(t, t.secs + TzOffsetHours * 3600)

\* "%Y-%m-%d %H:%M:%S" of a date and the seconds of the day.
FormatDatetime(c, secs) ==
    Pad4(NatToText(c.y)) \o <<"-">> \o Pad2(NatToText(c.m)) \o <<"-">>
    \o Pad2(NatToText(c.d)) \o <<" ">> \o Pad2(NatToText(secs \div 3600))
    \o <<":">> \o Pad2(NatToText((secs % 3600) \div 60))
    \o <<":">> \o Pad2(NatToText(secs % 60))

\* local_time.strftime("%Y-%m-%d %H:%M:%S")
Strftime(t) == FormatDatetime(CivilFromDays(t.days), t.secs)

\* try: first / except ValueError: second
OrElse(first, second) == IF first.ok THEN first ELSE second

\* The item's played_at parsed with the fractional format and, on ValueError,
\* with the whole-second format.
ParseApiTime(t) == OrElse(Strptime(t, ApiFormatFraction), Strptime(t, ApiFormatWhole))

\* minutes = ms // 60000, seconds = (ms % 60000) // 1000, f"{minutes:02}:{seconds:02}"
DurationFormatted(ms) ==
    Pad2(NatToText(ms \div 60000)) \o <<":">> \o Pad2(NatToText((ms % 60000) \div 1000))

\* ------------------------------------------------------------------ collection
\* A document is a record that always has _id and may lack time_taken; the
\* collection is the set of its documents.  ObjectIds are natural numbers.
HasField(doc, f) == f \in DOMAIN doc

\* {"$set": fields} applied to a document.
MongoSet(doc, fields) ==
    [f \in DOMAIN doc \cup DOMAIN fields |->
        IF f \in DOMAIN fields THEN fields[f] ELSE doc[f]]

Matches(doc, filter) == \A f \in DOMAIN filter : HasField(doc, f) /\ doc[f] = filter[f]

\* A fresh ObjectId: documents are never deleted, so one more than the largest.
NewId(coll) ==
    IF coll = {} THEN 1
    ELSE 1 + (CHOOSE n \in {d._id : d \in coll} : \A e \in coll : e._id <= n)

\* A filter that selects nothing.
HitsNone(coll, filter) == {}

\* The documents a filter selects.
Hits(coll, filter) == {d \in coll : Matches(d, filter)}

\* The first of the documents a filter selects.
First(hits) == CHOOSE d \in hits : \A e \in hits : d._id <= e._id

\* coll with document old replaced by new.
Replaced(coll, old, new) == (coll \ {old}) \cup {new}

\* update_one once the filter has selected hits.
UpdateHits(coll, hits, filter, fields, upsert) ==
    IF hits # {} THEN Replaced(coll, First(hits), MongoSet(First(hits), fields))
    ELSE IF upsert
    THEN coll \cup {MongoSet(MongoSet([_id |-> NewId(coll)], filter), fields)}
    ELSE coll

\* collection.update_one(filter, {"$set": fields}, upsert=upsert): the first
\* document matching the filter gets the fields; with none and upsert, a new
\* document made of the filter and the fields is inserted.
UpdateOne(coll, filter, fields, upsert) ==
    UpdateHits(coll, Hits(coll, filter), filter, fields, upsert)

\* d comes before e in sort("played_at", -1); equal keys keep _id order.
Before(d, e) ==
    \/ TextLess(e.played_at, d.played_at)
    \/ (e.played_at = d.played_at /\ d._id < e._id)

\* The document that sorts first.
Top(coll) == CHOOSE d \in coll : \A e \in coll \ {d} : Before(d, e)

RECURSIVE SortDesc(_)
RECURSIVE SortFrom(_, _)
SortFrom(coll, top) == <<top>> \o SortDesc(coll \ {top})

\* list(collection.find().sort("played_at", -1))
SortDesc(coll) == IF coll = {} THEN <<>> ELSE SortFrom(coll, Top(coll))

\* ------------------------------------------------------------------ Ingestor
\* The mapping of one item of recent_tracks['items'] to the data dict.
ItemData(item) ==
    [artist |-> item.track.artists[1].name,
     title |-> item.track.name,
     played_at |-> Strftime(AsTimezone(ParseApiTime(item.played_at))),
     duration |-> DurationFormatted(item.track.duration_ms),
     album |-> item.track.album.name]

\* ------------------------------------------------------------------ Estimator
\* A pass that skips nothing.
SkipNever(song) == FALSE

\* "time_taken" in song
SkipEvent(song) == HasField(song, "time_taken")

\* The gap taken without the cap of the duration.
ActualUncapped(diff, duration_total) == diff

\* actual = min(diff, duration_total)
Actual(diff, duration_total) == Min(diff, duration_total)

\* The oldest event's duration parsed and formatted like the others.
OldestReformatted(song) == FormatTimeTaken(ParseDuration(song.duration).val)

\* The else branch: the oldest event takes its duration text as it is.
OldestTimeTaken(song) == song.duration

\* The first branch, given the two parsed timestamps and the parsed duration:
\* the time_taken text, or ok = FALSE where a parse raised.
CappedTimeTaken(cur, nxt, dur) ==
    IF cur.ok /\ nxt.ok /\ dur.ok
    THEN [ok |-> TRUE, text |-> FormatTimeTaken(Actual(TotalSeconds(cur, nxt), dur.val))]
    ELSE [ok |-> FALSE, text |-> <<>>]

\* The duration parsed before the branch, so for the oldest event too.
ComputeParsingOldest(data, i) ==
    IF i < Len(data)
    THEN CappedTimeTaken(Strptime(data[i].played_at, StoredFormat),
                         Strptime(data[i + 1].played_at, StoredFormat),
                         ParseDuration(data[i].duration))
    ELSE [ok |-> ParseDuration(data[i].duration).ok, text |-> data[i].duration]

\* The body of the try block before the write, for the event at index i
\* (1 = newest): the time_taken text, or ok = FALSE where it raises.
ComputeTimeTaken(data, i) ==
    IF i < Len(data)
    THEN CappedTimeTaken(Strptime(data[i].played_at, StoredFormat),
                         Strptime(data[i + 1].played_at, StoredFormat),
                         ParseDuration(data[i].duration))
    ELSE [ok |-> TRUE, text |-> OldestTimeTaken(data[i])]

\* The three ways one event leaves the loop body, with the counter it bumps.
\* log records the way: "skipped", "updated", "error" (the computation
\* raised) or "write_error" (update_one raised).
Skipped(acc, song) ==
    [acc EXCEPT !.skipped = @ + 1, !.log = @ @@ (song._id :> "skipped")]

\* An error that is logged and not counted.
FailedUncounted(acc, song, why) == [acc EXCEPT !.log = @ @@ (song._id :> why)]

Failed(acc, song, why) ==
    [acc EXCEPT !.errors = @ + 1, !.log = @ @@ (song._id :> why)]

\* The write to a misspelt field.
UpdatedMisspelt(acc, song, text) ==
    [acc EXCEPT !.coll = UpdateOne(@, [_id |-> song._id], [timetaken |-> text], FALSE),
                !.updated = @ + 1,
                !.log = @ @@ (song._id :> "updated")]

Updated(acc, song, text) ==
    [acc EXCEPT !.coll = UpdateOne(@, [_id |-> song._id], [time_taken |-> text], FALSE),
                !.updated = @ + 1,
                !.log = @ @@ (song._id :> "updated")]

\* The try block: the computed text is written unless the computation or the
\* write raised; failing is the set of _ids whose update_one raises.
TryUpdate(acc, song, est, failing) ==
    IF ~est.ok THEN Failed(acc, song, "error")
    ELSE IF song._id \in failing THEN Failed(acc, song, "write_error")
    ELSE Updated(acc, song, est.text)

\* The loop body for the event at index i.
ProcessEvent(data, i, acc, failing) ==
    IF SkipEvent(data[i]) THEN Skipped(acc, data[i])
    ELSE TryUpdate(acc, data[i], ComputeTimeTaken(data, i), failing)

RECURSIVE ProcessUntilError(_, _, _, _)
\* The loop with the try around it: the first error ends the pass.
ProcessUntilError(data, i, acc, failing) ==
    IF i > Len(data) \/ acc.errors > 0 THEN acc
    ELSE ProcessUntilError(data, i + 1, ProcessEvent(data, i, acc, failing), failing)

RECURSIVE ProcessFrom(_, _, _, _)
\* The for loop from index i on; acc carries the collection, the three
\* counters and the log.
ProcessFrom(data, i, acc, failing) ==
    IF i > Len(data) THEN acc
    ELSE ProcessFrom(data, i + 1, ProcessEvent(data, i, acc, failing), failing)

NoCounts == [total_docs |-> 0, updated |-> 0, skipped |-> 0, errors |-> 0]

\* The state of the pass before the loop.
Start(coll) == [coll |-> coll, updated |-> 0, skipped |-> 0, errors |-> 0, log |-> <<>>]

\* The returned summary (without the elapsed time), with the collection and
\* the log the loop ended with.
Returned(total, end) ==
    [raised |-> FALSE, coll |-> end.coll,
     summary |-> [total_docs |-> total, updated |-> end.updated,
                  skipped |-> end.skipped, errors |-> end.errors],
     log |-> end.log]

\* The pass without the short circuit, reading the newest event before the loop.
PassUnguarded(coll, data, failing) ==
    IF data = <<>> THEN [raised |-> TRUE, coll |-> coll, summary |-> NoCounts, log |-> <<>>]
    ELSE Returned(Len(data), ProcessFrom(data, 1, Start(coll), failing))

\* The pass over the fetched and sorted data: the short circuit of an empty
\* batch, else the loop.
PassOver(coll, data, failing) ==
    IF data = <<>> THEN [raised |-> FALSE, coll |-> coll, summary |-> NoCounts, log |-> <<>>]
    ELSE Returned(Len(data), ProcessFrom(data, 1, Start(coll), failing))

\* calculate_time_taken_for_collection.  faults.find says that
\* collection.find() raises, which the function does not catch; faults.update
\* is the set of _ids whose update_one raises.
CalculateTimeTaken(coll, faults) ==
    IF faults.find THEN [raised |-> TRUE, coll |-> coll, summary |-> NoCounts, log |-> <<>>]
    ELSE PassOver(coll, SortDesc(coll), faults.update)

\* ------------------------------------------------------------------ inputs
Day == <<"2", "0", "2", "4", "-", "0", "1", "-", "0", "1">>

\* Documents the collection may hold before the first run: well-formed ones, one
\* with time_taken, one with an hour that is not zero-padded (it parses, and
\* sorts above every padded text), a malformed duration, a malformed played_at.
Preloadable ==
    << [played_at |-> Day \o <<" ", "1", "0", ":", "0", "5", ":", "0", "0">>,
        duration |-> <<"0", "3", ":", "3", "0">>],
       [played_at |-> Day \o <<" ", "1", "0", ":", "0", "2", ":", "0", "0">>,
        duration |-> <<"0", "4", ":", "0", "0">>],
       [played_at |-> Day \o <<" ", "9", ":", "0", "0", ":", "3", "0">>,
        duration |-> <<"0", "3", ":", "3", "0">>],
       [played_at |-> Day \o <<" ", "0", "9", ":", "0", "0", ":", "3", "0">>,
        duration |-> <<"0", "1", ":", "0", "0">>],
       [played_at |-> Day \o <<" ", "1", "0", ":", "0", "0", ":", "0", "0">>,
        duration |-> <<"0", "2", ":", "0", "0">>,
        time_taken |-> <<"1", ":", "1", "5">>],
       [played_at |-> Day \o <<" ", "1", "0", ":", "0", "3", ":", "0", "0">>,
        duration |-> <<"a", "b", "c">>],
       [played_at |-> Day \o <<" ", "1", "0", ":", "0", "4">>,
        duration |-> <<"0", "3", ":", "3", "0">>] >>

Preloaded(k) ==
    MongoSet([_id |-> k, artist |-> "artist0", title |-> "title0", album |-> "album0"],
             Preloadable[k])

Track(name, ms) ==
    [name |-> name, artists |-> <<[name |-> "artist1"]>>, album |-> [name |-> "album1"],
     duration_ms |-> ms]

\* The plays the API knows, newest first: two whose played_at, one with and one
\* without a fraction, is the same second, and an older one.
Plays ==
    << [played_at |-> Day \o <<"T", "0", "2", ":", "0", "5", ":", "0", "0", ".", "1", "2", "3", "Z">>,
        track |-> Track("title1", 210999)],
       [played_at |-> Day \o <<"T", "0", "2", ":", "0", "5", ":", "0", "0", "Z">>,
        track |-> Track("title2", 185000)],
       [played_at |-> Day \o <<"T", "0", "2", ":", "0", "4", ":", "1", "0", ".", "5", "Z">>,
        track |-> Track("title3", 59999)] >>

Items == {Plays[k] : k \in 1..Len(Plays)}

RECURSIVE Picked(_, _)
\* The plays with an index in ks, from index k on, in the order of Plays.
Picked(ks, k) ==
    IF k > Len(Plays) THEN <<>>
    ELSE (IF k \in ks THEN <<Plays[k]>> ELSE <<>>) \o Picked(ks, k + 1)

\* A page of the API: up to MaxBatch of the plays, newest first.
Pages ==
    {Picked(ks, 1) : ks \in {x \in SUBSET (1..Len(Plays)) : x # {} /\ Cardinality(x) <= MaxBatch}}

\* ItemData tabulated over the items of the model.
ItemDataOf == [item \in Items |-> ItemData(item)]

\* One iteration of the loop: upsert keyed by the formatted local played_at.
UpsertItem(coll, item) ==
    UpdateOne(coll, [played_at |-> ItemDataOf[item].played_at], ItemDataOf[item], TRUE)

RECURSIVE UpsertItems(_, _, _)
\* The loop over the first n items of the page.
UpsertItems(coll, items, n) ==
    IF n = 0 THEN coll
    ELSE UpsertItem(UpsertItems(coll, items, n - 1), items[n])

\* ------------------------------------------------------------------ runs
\* lastRun is the record of the latest run: which component, whether it raised,
\* the collection it started from, the page the Ingestor got, and for the
\* Estimator the returned summary and the log; prev is the run before, in short.
Brief(run) ==
    [op |-> run.op, raised |-> run.raised, errors |-> run.summary.errors,
     write_raised |-> \E id \in DOMAIN run.log : run.log[id] = "write_error"]

NoRun ==
    [op |-> "none", raised |-> FALSE, pre |-> {}, items |-> <<>>, summary |-> NoCounts,
     log |-> <<>>,
     prev |-> [op |-> "none", raised |-> FALSE, errors |-> 0, write_raised |-> FALSE]]

Init ==
    /\ \E ks \in SUBSET (1..Len(Preloadable)) :
          /\ Cardinality(ks) <= MaxPreload
          /\ store = {Preloaded(k) : k \in ks}
    /\ lastRun = NoRun

\* The Ingestor's lambda_handler: fetch_recent_tracks upserts every item of the
\* page.
FetchRecentTracks ==
    \E items \in Pages :
        /\ store' = UpsertItems(store, items, Len(items))
        /\ lastRun' = [op |-> "fetch", raised |-> FALSE, pre |-> store, items |-> items,
                       summary |-> NoCounts, log |-> <<>>, prev |-> Brief(lastRun)]

\* The record of a run of the Estimator's lambda_handler: it returns the summary
\* of the pass, or reports and re-raises what the pass raised.
Handled(run, coll, before) ==
    [op |-> "estimate", raised |-> run.raised, pre |-> coll, items |-> <<>>,
     summary |-> run.summary, log |-> run.log, prev |-> Brief(before)]

\* The Estimator's run with a storage that works.
LambdaHandler ==
    LET run == CalculateTimeTaken(store, [find |-> FALSE, update |-> {}])
    IN /\ store' = run.coll
       /\ lastRun' = Handled(run, store, lastRun)

\* The Estimator's run in which some update_one calls raise.
LambdaHandlerWriteRaises ==
    \E failing \in SUBSET {d._id : d \in {e \in store : ~SkipEvent(e)}} :
        /\ failing # {}
        /\ Cardinality(failing) <= MaxFailing
        /\ LET run == CalculateTimeTaken(store, [find |-> FALSE, update |-> failing])
           IN /\ store' = run.coll
              /\ lastRun' = Handled(run, store, lastRun)

\* The Estimator's run in which collection.find() raises.
LambdaHandlerFindRaises ==
    LET run == CalculateTimeTaken(store, [find |-> TRUE, update |-> {}])
    IN /\ store' = run.coll
       /\ lastRun' = Handled(run, store, lastRun)

\* Runs of both components with a storage that works.
Next == FetchRecentTracks \/ LambdaHandler

Spec == Init /\ [][Next]_vars

\* Runs of the Estimator over the pre-existing documents with a storage that
\* may fail.
NextFault ==
    \/ LambdaHandler
    \/ LambdaHandlerWriteRaises
    \/ LambdaHandlerFindRaises

FaultSpec == Init /\ [][NextFault]_vars

\* ------------------------------------------------------------------ claims
\* The latest run was a pass of the Estimator that returned.
EstimatorRan == lastRun.op = "estimate" /\ ~lastRun.raised

\* The batch of the latest run: the collection it started from, newest first.
Batch == SortDesc(lastRun.pre)

\* The document with the given _id as it is stored now.
Now(id) == CHOOSE d \in store : d._id = id

HasTimeTaken(d) == HasField(d, "time_taken")

\* The gap in seconds between the event at index i of the batch and the next
\* older one, and whether it and the duration are defined.
GapDefined(batch, i) ==
    /\ Strptime(batch[i].played_at, StoredFormat).ok
    /\ Strptime(batch[i + 1].played_at, StoredFormat).ok

Gap(batch, i) ==
    TotalSeconds(Strptime(batch[i].played_at, StoredFormat),
                 Strptime(batch[i + 1].played_at, StoredFormat))

\* floor(e/60), ':' and e mod 60 in two digits.
MinutesSeconds(e) ==
    IntToText(e \div 60)
    \o <<":", DigitChars[((e % 60) \div 10) + 1], DigitChars[((e % 60) % 10) + 1]>>

\* The smaller of the gap and the duration.
CappedGap(gap, duration) == IF gap <= duration THEN gap ELSE duration

\* The event at index i is one the pass computes the capped gap for.
Computable(batch, i) ==
    /\ ~HasTimeTaken(batch[i])
    /\ GapDefined(batch, i)
    /\ ParseDuration(batch[i].duration).ok

\* C1: after a pass, every event that is not the oldest of the batch, had no
\* time_taken and has a well-formed duration and a well-formed gap to the next
\* older event carries time_taken = format(min(gap, duration)), with floor
\* division and a remainder in 0..59 also for a negative or zero gap.
C1_CappedGapStored ==
    EstimatorRan =>
        \A i \in 1..(Len(Batch) - 1) :
            Computable(Batch, i) =>
                /\ HasTimeTaken(Now(Batch[i]._id))
                /\ Now(Batch[i]._id).time_taken =
                       MinutesSeconds(CappedGap(Gap(Batch, i),
                                                ParseDuration(Batch[i].duration).val))

\* A pass stored the time_taken of an event with a negative gap that is no
\* multiple of a minute, and "3:00" for a gap of 180 s under a duration "03:30".
C1_Witness ==
    /\ EstimatorRan
    /\ \E i \in 1..(Len(Batch) - 1) :
          /\ Computable(Batch, i)
          /\ Gap(Batch, i) < 0
          /\ Gap(Batch, i) % 60 # 0
          /\ HasTimeTaken(Now(Batch[i]._id))
    /\ \E i \in 1..(Len(Batch) - 1) :
          /\ Computable(Batch, i)
          /\ Gap(Batch, i) = 180
          /\ Batch[i].duration = <<"0", "3", ":", "3", "0">>
          /\ Now(Batch[i]._id).time_taken = <<"3", ":", "0", "0">>

\* The latest run is the second of two passes in a row, the first of which
\* returned and had no write raise.
SecondPass ==
    /\ EstimatorRan
    /\ lastRun.prev.op = "estimate"
    /\ ~lastRun.prev.raised
    /\ ~lastRun.prev.write_raised

\* C2 as claimed: the second of two passes in a row reports updated = 0 and
\* skipped = total_docs and leaves the collection as it found it.
C2_SecondPassSkipsAll ==
    SecondPass =>
        /\ lastRun.summary.updated = 0
        /\ lastRun.summary.skipped = lastRun.summary.total_docs
        /\ store = lastRun.pre

\* C2 as amended: the second of two passes in a row (no write having raised in
\* the first) reports updated = 0, the errors of the first pass again and
\* skipped = total_docs - errors, and leaves the collection as it found it.
C2_SecondPassRepeats ==
    SecondPass =>
        /\ lastRun.summary.updated = 0
        /\ lastRun.summary.errors = lastRun.prev.errors
        /\ lastRun.summary.skipped = lastRun.summary.total_docs - lastRun.summary.errors
        /\ store = lastRun.pre

\* A second pass over a batch with an event it skips and an event that fails
\* again.
C2_Witness ==
    /\ SecondPass
    /\ lastRun.summary.skipped >= 1
    /\ lastRun.summary.errors >= 1

\* C3: whatever the latest run was, an event that carried time_taken before it
\* carries the same time_taken after it.
C3_TimeTakenWriteOnce ==
    \A d \in lastRun.pre :
        HasTimeTaken(d) =>
            \E e \in store : e._id = d._id /\ HasTimeTaken(e) /\ e.time_taken = d.time_taken

\* The Ingestor upserted a play onto an event that carried time_taken: its
\* title changed, and a pass of the Estimator had written the time_taken.
C3_Witness ==
    /\ lastRun.op = "fetch"
    /\ lastRun.prev.op = "estimate"
    /\ \E d \in lastRun.pre :
          /\ HasTimeTaken(d)
          /\ Now(d._id).title # d.title

\* The events of the batch whose duration does not parse.
Malformed(batch) == {i \in 1..Len(batch) : ~ParseDuration(batch[i].duration).ok}

\* The batch has two events or more, none has time_taken, every played_at
\* parses and exactly one duration does not.
OneMalformed(batch) ==
    /\ Len(batch) >= 2
    /\ \A i \in 1..Len(batch) :
          ~HasTimeTaken(batch[i]) /\ Strptime(batch[i].played_at, StoredFormat).ok
    /\ Cardinality(Malformed(batch)) = 1

\* C4 as claimed: with one malformed duration among valid events without
\* time_taken, the pass returns errors = 1 and updated = total_docs - 1 and
\* leaves the malformed event without time_taken, wherever it sits.
C4_OneErrorAnywhere ==
    (EstimatorRan /\ OneMalformed(Batch)) =>
        /\ lastRun.summary.errors = 1
        /\ lastRun.summary.updated = lastRun.summary.total_docs - 1
        /\ \A i \in Malformed(Batch) : ~HasTimeTaken(Now(Batch[i]._id))

\* C4 as amended: that holds wherever the malformed event sits except as the
\* oldest of the batch; there its duration text is copied without being parsed,
\* and the pass returns errors = 0 and updated = total_docs.
C4_OneErrorUnlessOldest ==
    (EstimatorRan /\ OneMalformed(Batch)) =>
        \A i \in Malformed(Batch) :
            IF i = Len(Batch)
            THEN /\ lastRun.summary.errors = 0
                 /\ lastRun.summary.updated = lastRun.summary.total_docs
                 /\ HasTimeTaken(Now(Batch[i]._id))
                 /\ Now(Batch[i]._id).time_taken = Batch[i].duration
            ELSE /\ lastRun.summary.errors = 1
                 /\ lastRun.summary.updated = lastRun.summary.total_docs - 1
                 /\ ~HasTimeTaken(Now(Batch[i]._id))

\* A pass over three or more events, the malformed one neither the newest nor
\* the oldest, returned errors = 1.
C4_Witness ==
    /\ EstimatorRan
    /\ OneMalformed(Batch)
    /\ \E i \in Malformed(Batch) : 1 < i /\ i < Len(Batch)
    /\ lastRun.summary.errors = 1
    /\ lastRun.summary.updated = lastRun.summary.total_docs - 1

\* The indices of the batch whose write raised in the latest run.
WriteRaised(batch) ==
    {i \in 1..Len(batch) :
        batch[i]._id \in DOMAIN lastRun.log /\ lastRun.log[batch[i]._id] = "write_error"}

\* C5 as claimed: a write that raises makes the run raise, and no event after
\* the failing one is written in that run.
C5_WriteErrorAborts ==
    (lastRun.op = "estimate" /\ WriteRaised(Batch) # {}) =>
        /\ lastRun.raised
        /\ \A i \in WriteRaised(Batch) :
              \A j \in (i + 1)..Len(Batch) : Now(Batch[j]._id) = Batch[j]

\* C5 as amended: a write that raises is caught with the other per-event
\* errors: the run returns, the event is counted in errors and left without
\* time_taken, every other event is handled as in a run without the fault, and
\* a pass that follows does not skip an event left without time_taken.
C5_WriteErrorIsolated ==
    /\ (lastRun.op = "estimate" /\ WriteRaised(Batch) # {}) =>
          /\ ~lastRun.raised
          /\ lastRun.summary.errors >= Cardinality(WriteRaised(Batch))
          /\ \A i \in WriteRaised(Batch) : Now(Batch[i]._id) = Batch[i]
          /\ \A j \in 1..Len(Batch) :
                (j \notin WriteRaised(Batch) /\ (j = Len(Batch) \/ Computable(Batch, j))) =>
                    HasTimeTaken(Now(Batch[j]._id))
    /\ (EstimatorRan /\ lastRun.prev.op = "estimate" /\ lastRun.prev.write_raised) =>
          \A d \in lastRun.pre :
              ~HasTimeTaken(d) =>
                  d._id \in DOMAIN lastRun.log /\ lastRun.log[d._id] # "skipped"

\* A write raised and an older event of the same batch was written in the
\* same run.
C5_Witness ==
    /\ lastRun.op = "estimate"
    /\ \E i \in WriteRaised(Batch) :
          \E j \in (i + 1)..Len(Batch) :
              ~HasTimeTaken(Batch[j]) /\ HasTimeTaken(Now(Batch[j]._id))

\* C6: after a pass, every event that is not the oldest of the batch and whose
\* time_taken the pass wrote has time_taken, parsed as minutes*60+seconds, at
\* most its duration parsed the same way.
C6_CappedByDuration ==
    EstimatorRan =>
        \A i \in 1..(Len(Batch) - 1) :
            (~HasTimeTaken(Batch[i]) /\ HasTimeTaken(Now(Batch[i]._id))) =>
                /\ ParseDuration(Now(Batch[i]._id).time_taken).ok
                /\ ParseDuration(Now(Batch[i]._id).duration).ok
                /\ ParseDuration(Now(Batch[i]._id).time_taken).val
                       <= ParseDuration(Now(Batch[i]._id).duration).val

\* A pass wrote one time_taken that the duration capped (the gap was longer)
\* and one for a negative gap.
C6_Witness ==
    /\ EstimatorRan
    /\ \E i \in 1..(Len(Batch) - 1) :
          /\ Computable(Batch, i)
          /\ Gap(Batch, i) > ParseDuration(Batch[i].duration).val
          /\ HasTimeTaken(Now(Batch[i]._id))
    /\ \E i \in 1..(Len(Batch) - 1) :
          /\ Computable(Batch, i)
          /\ Gap(Batch, i) < 0
          /\ HasTimeTaken(Now(Batch[i]._id))

\* C7: after a pass over a non-empty batch, the oldest event, if it had no
\* time_taken, has its duration text as time_taken, character for character.
C7_OldestVerbatim ==
    (EstimatorRan /\ Batch # <<>> /\ ~HasTimeTaken(Batch[Len(Batch)])) =>
        /\ HasTimeTaken(Now(Batch[Len(Batch)]._id))
        /\ Now(Batch[Len(Batch)]._id).time_taken = Batch[Len(Batch)].duration

\* A pass gave the oldest event a duration text that formatting its seconds
\* would not give back ("04:00" and not "4:00").
C7_Witness ==
    /\ EstimatorRan
    /\ Batch # <<>>
    /\ ~HasTimeTaken(Batch[Len(Batch)])
    /\ ParseDuration(Batch[Len(Batch)].duration).ok
    /\ MinutesSeconds(ParseDuration(Batch[Len(Batch)].duration).val)
           # Batch[Len(Batch)].duration
    /\ HasTimeTaken(Now(Batch[Len(Batch)]._id))

\* The stored events with the played_at of the given item.
StoredAs(item) == {d \in store : d.played_at = ItemDataOf[item].played_at}

\* The index of the last item of the page with the played_at key of item i.
LastWritten(items, i) ==
    CHOOSE j \in i..Len(items) :
        /\ ItemDataOf[items[j]].played_at = ItemDataOf[items[i]].played_at
        /\ \A k \in (j + 1)..Len(items) :
              ItemDataOf[items[k]].played_at # ItemDataOf[items[i]].played_at

\* C8: no two stored events share a played_at, and after a run of the Ingestor
\* each item of the page is stored in exactly one event, whose fields are those
\* of the last item of the page with that played_at.
C8_PlayedAtUnique ==
    /\ \A d, e \in store : d.played_at = e.played_at => d._id = e._id
    /\ lastRun.op = "fetch" =>
          \A i \in 1..Len(lastRun.items) :
              /\ Cardinality(StoredAs(lastRun.items[i])) = 1
              /\ \A d \in StoredAs(lastRun.items[i]) :
                    /\ d.title = lastRun.items[LastWritten(lastRun.items, i)].track.name
                    /\ d.duration
                           = DurationFormatted(lastRun.items[LastWritten(lastRun.items, i)].track.duration_ms)
                    /\ d.artist = lastRun.items[LastWritten(lastRun.items, i)].track.artists[1].name
                    /\ d.album = lastRun.items[LastWritten(lastRun.items, i)].track.album.name

\* The Ingestor got a page with two items of the same second and different
\* titles, the collection already holding an event of that second.
C8_Witness ==
    /\ lastRun.op = "fetch"
    /\ \E i, j \in 1..Len(lastRun.items) :
          /\ i < j
          /\ ItemDataOf[lastRun.items[i]].played_at = ItemDataOf[lastRun.items[j]].played_at
          /\ lastRun.items[i].track.name # lastRun.items[j].track.name
          /\ \E d \in lastRun.pre : d.played_at = ItemDataOf[lastRun.items[i]].played_at

\* C9: a run of the Estimator over an empty collection returns all-zero
\* counters, writes nothing and does not raise.
C9_EmptyInput ==
    (lastRun.op = "estimate" /\ lastRun.pre = {}) =>
        /\ ~lastRun.raised
        /\ lastRun.summary = NoCounts
        /\ store = {}

\* The Estimator ran over an empty collection.
C9_Witness == lastRun.op = "estimate" /\ lastRun.pre = {}

\* C10: a pass that returns has updated + skipped + errors = total_docs, the
\* number of events of the batch; skipped is the number of events that had
\* time_taken before the pass, updated the number of events the pass gave
\* time_taken, and every event left the loop body in exactly one way.
C10_CountersPartition ==
    EstimatorRan =>
        /\ lastRun.summary.total_docs = Cardinality(lastRun.pre)
        /\ lastRun.summary.updated + lastRun.summary.skipped + lastRun.summary.errors
               = lastRun.summary.total_docs
        /\ lastRun.summary.skipped = Cardinality({d \in lastRun.pre : HasTimeTaken(d)})
        /\ lastRun.summary.updated
               = Cardinality({d \in lastRun.pre :
                                 ~HasTimeTaken(d) /\ HasTimeTaken(Now(d._id))})
        /\ DOMAIN lastRun.log = {d._id : d \in lastRun.pre}

\* A pass returned with an event skipped, an event updated and a write that
\* raised.
C10_Witness ==
    /\ EstimatorRan
    /\ lastRun.summary.skipped >= 1
    /\ lastRun.summary.updated >= 1
    /\ WriteRaised(Batch) # {}
====
